---- MODULE Spec2Model ----
(***************************************************************************)
(* Demand paging of nachos-3.4/code/userprog/addrspace.cc: the inverted    *)
(* page table (frame ownership registry), its semaphore, the per-process   *)
(* page tables and swap files, the page-fault resolver PageFaultLoadPage,  *)
(* the victim search FrameSearch and the address-space destructor.         *)
(*                                                                         *)
(* A page of memory or of a swap file is one value (its bytes as a whole). *)
(* A thread is named by its id; the id is also the process id that names   *)
(* the swap file "<id>.swap".  A thread gives up the CPU where it sleeps   *)
(* in Semaphore::P, as P() and V() return, and inside the blocking file    *)
(* calls (Create / Open / ReadAt / WriteAt / Write), so the constructor,   *)
(* GenerateSWAP and the resolver are cut into steps at those calls.        *)
(***************************************************************************)
EXTENDS Integers, FiniteSets, Sequences, TLC

\* ---------------------------------------------------------------- bounds
NumProcs == 2        \* user processes that run programs and fault
MaxPages == 2        \* a program's code and data fill 1..MaxPages pages; it touches pages 0..MaxPages-1
MaxSmallPool == 2    \* frame pools of 1..MaxSmallPool frames, and of 32
MaxFaults == 3       \* calls of PageFaultLoadPage in one run
MaxStores == 1       \* stores of user programs in one run
FreeAtBoot == 1      \* frames the resident process leaves free (pool of 32)
MaxRandom == 0       \* Random() draws 0..MaxRandom and 63-MaxRandom..63
MaxGarbledPages == 0 \* pages of a length that an overrun left in a local

\* ------------------------------------------------------ program constants
InvPageTableSize == 32          \* invPageTable[32], and the 32 of the loops
NULL == 0                       \* the null Thread*
SemInitial_Two == 1 + 1         \* the mutant of SemInitial: two may enter
SemInitial == 1                 \* invPageTableSemaphore("Inverted Page Table", 1)
NoTable == <<>>                 \* pageTable = NULL: no entries
NoFile == <<>>                  \* Open returns NULL: there is no such file
NoFrame == 0 - 1                \* -1: BitMap::Find / FrameSearch found none
Unowned == 0 - 1                \* -1: process / page of an unowned entry

Procs == 1..NumProcs
Hog == NumProcs + 1             \* the resident process of the 32-frame pool
Threads == 1..(NumProcs + 1)
HogPages == InvPageTableSize - FreeAtBoot
PoolSizes == (1..MaxSmallPool) \cup {InvPageTableSize}
RandomValues == (0..MaxRandom) \cup ((2 * InvPageTableSize - 1 - MaxRandom)..(2 * InvPageTableSize - 1))
Slots == 0..(InvPageTableSize - 1)

VARIABLES
    swapMode,                   \* extern int swapMode
    numPhysPages,               \* frames of memMap / mainMemory
    invPageTableNotYetLoaded,   \* static flag of the constructor
    semValue,                   \* invPageTableSemaphore's value
    invPageTable,               \* the registry: slot -> time, process, processThread, page
    memMap,                     \* set of frames marked in the bitmap
    mainMemory,                 \* frame -> contents
    numPages,                   \* thread -> AddrSpace::numPages
    pageTable,                  \* thread -> NoTable or page -> valid, physicalPage
    swapFile,                   \* thread -> NoFile or page -> contents of "<id>.swap"
    pc,                         \* thread -> where it is
    page,                       \* PageFaultLoadPage's local page
    frame,                      \* PageFaultLoadPage's local frame
    victimPage,                 \* virtualOffset / PageSize of line 374
    victimFile,                 \* the process id printed into filename, line 377
    ret,                        \* last value PageFaultLoadPage returned, or NoRet
    searchResult,               \* last value FrameSearch returned, or NoRet
    crashed,                    \* the kernel took a fatal signal
    calls,                      \* calls of PageFaultLoadPage so far
    stores,                     \* stores of user programs so far
    lastWritten,                \* history: thread -> page -> bytes the program last stored
    swapAtFault,                \* history: thread -> swap contents of the page when it faulted
    noffH,                      \* thread -> header of its executable: the sizes of the three segments
    sizing,                     \* what the constructor and GenerateSWAP computed from noffH
    resets,                     \* history: runs of the constructor's reset loop so far
    sinceInstall                \* history: slot -> successful faults since a page was
                                \*   installed in it, NoRet if none is installed

vars == <<swapMode, numPhysPages, invPageTableNotYetLoaded, semValue, invPageTable,
          memMap, mainMemory, numPages, pageTable, swapFile, pc, page, frame,
          victimPage, victimFile, ret, searchResult, crashed, calls, stores,
          lastWritten, swapAtFault, noffH, sizing, resets, sinceInstall>>

NoRet == 0 - 2

\* ------------------------------------------------------------- contents
\* The bytes GenerateSWAP writes for page vp of process p, told apart per page.
Image(p, vp) == 100 * p + 2 * vp
\* What a store of the user program makes of a page.
Stored(c) == c + 1
IsImage(c) == c % 2 = 0
Zero == 0

\* ------------------------------------------------------------ collaborators
\* BitMap::Find: the lowest clear bit, or -1.  (The caller marks it.)
Find(map, n) ==
    IF \E f \in 0..(n - 1) : f \notin map
    THEN CHOOSE f \in 0..(n - 1) : f \notin map /\ \A g \in 0..(n - 1) : g \notin map => f <= g
    ELSE NoFrame

\* fileSystem->Open(filename): the file of process id, or NULL.
Open(files, id) == IF id \in Threads THEN files[id] ELSE NoFile
IsNull(f) == DOMAIN f = {}

\* ReadAt that ignores the offset.
ReadAt_FromStart(file, vp) == file[0]

\* readFile->ReadAt(readData, PageSize, page * PageSize), line 407.
ReadAt(file, vp) == file[vp]

\* ------------------------------------------------------------- the registry
UnownedEntry == [time |-> 0, process |-> Unowned, processThread |-> NULL, page |-> Unowned]
\* static storage before the constructor's loop has run
ZeroEntry == [time |-> 0, process |-> 0, processThread |-> NULL, page |-> 0]

\* The loop of the constructor, lines 78-83.
ResetTable == [i \in Slots |-> UnownedEntry]

\* The loop of case 1 of FrameSearch, lines 310-316, from slot i on.
RECURSIVE AgedScan(_, _, _, _)
AgedScan(tbl, i, O, ans) ==
    IF i >= InvPageTableSize THEN ans
    ELSE IF tbl[i].time > O THEN AgedScan(tbl, i + 1, tbl[i].time, i)
    ELSE AgedScan(tbl, i + 1, O, ans)

\* FrameSearch whose case 0 yields frame 0.
FrameSearch_AbortPicks(mode, tbl, rnd) ==
    CASE mode = 1 -> AgedScan(tbl, 0, 0, NoFrame)
      [] mode = 2 -> rnd % InvPageTableSize
      [] OTHER -> 0

\* FrameSearch, lines 299-325; rnd is the value Random() returns.
FrameSearch(mode, tbl, rnd) ==
    CASE mode = 0 -> NoFrame
      [] mode = 1 -> AgedScan(tbl, 0, 0, NoFrame)
      [] mode = 2 -> rnd % InvPageTableSize
      [] OTHER -> NoFrame

\* The mutant of Install: the slot keeps its time (line 425 left out).
Install_TimeKept(tbl, f, t, vp) ==
    [i \in Slots |->
        IF i = f THEN [time |-> tbl[i].time + 1, process |-> t, processThread |-> t, page |-> vp]
        ELSE [tbl[i] EXCEPT !.time = @ + 1]]

\* The mutant of Install: no time is incremented (line 424 left out).
Install_NoAging(tbl, f, t, vp) ==
    [i \in Slots |->
        IF i = f THEN [time |-> 0, process |-> t, processThread |-> t, page |-> vp]
        ELSE tbl[i]]

\* Lines 422-427: every time is incremented, then slot f is given to thread t.
Install(tbl, f, t, vp) ==
    [i \in Slots |->
        IF i = f THEN [time |-> 0, process |-> t, processThread |-> t, page |-> vp]
        ELSE [tbl[i] EXCEPT !.time = @ + 1]]

\* ----------------------------------------------------------- page tables
\* Lines 108-118: n entries, none valid; physicalPage is left unset.
NewPageTable(n) == [vp \in 0..(n - 1) |-> [valid |-> FALSE, physicalPage |-> NoFrame]]

Resident(pt) == {vp \in DOMAIN pt : pt[vp].valid}
FramesOf(pt) == {pt[vp].physicalPage : vp \in Resident(pt)}

\* Line 388 with its store skipped.
MarkInvalid_Skipped(pts, t, vp) == pts

\* Line 388: pageTable[vp].valid = FALSE in thread t's address space.
MarkInvalid(pts, t, vp) == [pts EXCEPT ![t][vp].valid = FALSE]

\* The destructor's loop without the registry's reset.
RECURSIVE DtorLoop_KeepsOwner(_, _, _, _)
DtorLoop_KeepsOwner(pt, i, map, tbl) ==
    IF i >= Cardinality(DOMAIN pt) THEN [map |-> map, tbl |-> tbl]
    ELSE IF pt[i].valid
         THEN DtorLoop_KeepsOwner(pt, i + 1, map \ {pt[i].physicalPage}, tbl)
         ELSE DtorLoop_KeepsOwner(pt, i + 1, map, tbl)

\* The destructor's loop without memMap->Clear.
RECURSIVE DtorLoop_NoClear(_, _, _, _)
DtorLoop_NoClear(pt, i, map, tbl) ==
    IF i >= Cardinality(DOMAIN pt) THEN [map |-> map, tbl |-> tbl]
    ELSE IF pt[i].valid
         THEN DtorLoop_NoClear(pt, i + 1, map,
                       [s \in Slots |-> IF s = pt[i].physicalPage THEN UnownedEntry ELSE tbl[s]])
         ELSE DtorLoop_NoClear(pt, i + 1, map, tbl)

\* The loop of the destructor, lines 137-148, from entry i on: the bitmap and
\* the registry after it.
RECURSIVE DtorLoop(_, _, _, _)
DtorLoop(pt, i, map, tbl) ==
    IF i >= Cardinality(DOMAIN pt) THEN [map |-> map, tbl |-> tbl]
    ELSE IF pt[i].valid
         THEN DtorLoop(pt, i + 1, map \ {pt[i].physicalPage},
                       [s \in Slots |-> IF s = pt[i].physicalPage THEN UnownedEntry ELSE tbl[s]])
         ELSE DtorLoop(pt, i + 1, map, tbl)

\* ------------------------------------------------------------------ sizing
\* Lines 101-104 and 222-226.  PageSize and UserStackSize are the machine's
\* values; a segment size is an int, size and numPages are unsigned int.
PageSize == 128
UserStackSize == 1024
\* An unsigned int is kept as its quotient and remainder by PageSize, so that
\* 2^32 is WordPages pages and no value of the model leaves TLC's integers.
WordPages == 2 ^ 25
\* The conversion of an int x to unsigned int: x modulo 2^32.
ToUnsigned(x) == [q |-> (x \div PageSize) % WordPages, r |-> x % PageSize]
\* Unsigned addition of a small int k >= 0 to the word w, modulo 2^32.
AddUnsigned(w, k) ==
    [q |-> (w.q + (w.r + k) \div PageSize) % WordPages, r |-> (w.r + k) % PageSize]
\* #define divRoundUp(n,s) (((n) + ((s) - 1)) / (s)), on unsigned int n, with
\* s = PageSize: the quotient of the wrapped sum.
divRoundUp(n, s) == AddUnsigned(n, s - 1).q
\* size = code.size + initData.size + uninitData.size + UserStackSize, stored
\* into the unsigned size.
SizeOf(h) == ToUnsigned(h.code.size + h.initData.size + h.uninitData.size + UserStackSize)
\* numPages * PageSize as unsigned int.
PagesToBytes(n) == [q |-> n % WordPages, r |-> 0]

\* numPages of lines 103 and 225.
NumPagesOf(h) == divRoundUp(SizeOf(h), PageSize)
\* char swapData[size] (line 234) is an array on the stack of the thread that
\* calls GenerateSWAP: whether it fits depends on the room left on that stack,
\* which the code does not test.  A kernel thread has a stack of
\* ThreadStackPages pages, of which the frames of GenerateSWAP and of its
\* callers take between MinFramePages and MaxFramePages; the thread that
\* starts the first program runs on a stack without such a limit.
ThreadStackPages == 128
MinFramePages == 4
MaxFramePages == 8
StackRooms == {ThreadStackPages - f : f \in MinFramePages..MaxFramePages} \cup {WordPages}
ExceedsStack(w, room) == w.q > room
\* Lines 238-242: a segment s of size above 0 is read to
\* &swapData[s.virtualAddr], s.size bytes of it (the executable holds the
\* bytes its header names), with no test against size: CopiedEnd is the index
\* after the last byte copied.
CopiedEnd(s) == s.virtualAddr + s.size
\* The copy of segment s leaves swapData, of w bytes (a whole number of pages).
CopiesOutside(s, w) ==
    /\ s.size > 0
    /\ \/ s.virtualAddr < 0
       \/ (CopiedEnd(s) + PageSize - 1) \div PageSize > w.q
Overflows(h, w) == CopiesOutside(h.code, w) \/ CopiesOutside(h.initData, w)
\* What a copy outside swapData can leave in the local size, that line 248
\* then writes: any word, here one of up to MaxGarbledPages pages.
GarbledLengths == {[q |-> q, r |-> r] : q \in 0..MaxGarbledPages, r \in 0..(PageSize - 1)}

\* A segment of the header: its size and the virtual address it is linked at.
Segment(size, virtualAddr) == [size |-> size, virtualAddr |-> virtualAddr]
\* The header of an executable linked as the loader expects: code at 0,
\* initialised data after it, uninitialised data after that.
Linked(c, d, u) ==
    LET codeEnd == IF c > 0 THEN c ELSE 0
        dataEnd == IF d > 0 THEN codeEnd + d ELSE codeEnd
    IN  [code       |-> Segment(c, 0),
         initData   |-> Segment(d, codeEnd),
         uninitData |-> Segment(u, dataEnd)]
NoHeader == Linked(0, 0, 0)
\* The executables of the user processes: a page of code, and 0..MaxPages-1
\* pages of initialised data after it.
Headers == {Linked(PageSize, d * PageSize, 0) : d \in 0..(MaxPages - 1)}
StackPages == UserStackSize \div PageSize
\* The executable of the resident process: HogPages pages with its stack.
HogHeader == Linked((HogPages - StackPages) * PageSize, 0, 0)
\* No length yet: of a file not created, or not written.
NoLength == [q |-> NoRet, r |-> 0]
NotSized == [numPages |-> NoRet, tableLength |-> NoRet, swapPages |-> NoRet,
             swapLength |-> NoLength, swapWritten |-> NoLength]

\* -------------------------------------------------------------------- Init
\* The state when the kernel has started: static storage is zero, the
\* semaphore is 1, memory is zeroed, no address space exists.
Init ==
    /\ swapMode \in 0..2
    /\ numPhysPages \in PoolSizes
    /\ invPageTableNotYetLoaded = TRUE
    /\ semValue = SemInitial
    /\ invPageTable = [i \in Slots |-> ZeroEntry]
    /\ memMap = {}
    /\ mainMemory = [f \in 0..(numPhysPages - 1) |-> Zero]
    /\ numPages = [t \in Threads |-> 0]
    /\ pageTable = [t \in Threads |-> NoTable]
    /\ swapFile = [t \in Threads |-> NoFile]
    /\ pc = [t \in Threads |-> "none"]
    /\ page = [t \in Threads |-> NoFrame]
    /\ frame = [t \in Threads |-> NoFrame]
    /\ victimPage = [t \in Threads |-> Unowned]
    /\ victimFile = [t \in Threads |-> Unowned]
    /\ ret = [t \in Threads |-> NoRet]
    /\ searchResult = NoRet
    /\ crashed = FALSE
    /\ calls = 0
    /\ stores = 0
    /\ lastWritten = [t \in Threads |-> <<>>]
    /\ swapAtFault = [t \in Threads |-> Zero]
    /\ \E hs \in [Procs -> Headers] :
          noffH = [t \in Threads |-> IF t = Hog THEN HogHeader ELSE hs[t]]
    /\ sizing = NotSized
    /\ resets = 0
    /\ sinceInstall = [i \in Slots |-> NoRet]

\* What no action of the paging machine changes: the configuration, and the
\* header and sizes that only the sizing steps below set.
config == <<swapMode, numPhysPages, noffH, sizing>>
faultLocals == <<page, frame, victimPage, victimFile>>
history == <<lastWritten, swapAtFault, sinceInstall>>
counts == <<calls, stores, resets>>

\* With a pool of 32 frames the resident process is started first and runs
\* alone until its HogPages pages are loaded; it then sleeps for good.  The
\* other processes are started after that; with a smaller pool, from Init.
Booted == numPhysPages = InvPageTableSize => (pc[Hog] = "run" /\ calls >= HogPages)

\* ------------------------------------------------- construction, lines 71-120
\* Page vp of swapData holds bytes of segment s after lines 238-242.
CopiedTo(s, vp) ==
    /\ s.size > 0
    /\ s.virtualAddr < (vp + 1) * PageSize
    /\ CopiedEnd(s) > vp * PageSize
\* GenerateSWAP, lines 210-248: what "<t>.swap" holds once written, for the
\* header h.  The buffer is zeroed (line 236); code and initialised data are
\* copied to their virtual addresses (lines 238-242); the rest, the
\* uninitialised data and the stack, stays zero.
GenerateSWAP(t, h) ==
    [vp \in 0..(NumPagesOf(h) - 1) |->
        IF CopiedTo(h.code, vp) \/ CopiedTo(h.initData, vp) THEN Image(t, vp) ELSE Zero]

\* The file as fileSystem->Create(filename, size) leaves it: size zero bytes.
Create(h) == [vp \in 0..(NumPagesOf(h) - 1) |-> Zero]

\* AddrSpace::AddrSpace, lines 71-74, run by thread t: the flag is tested and,
\* if it is set, P() is called: it takes the semaphore or puts the thread to
\* sleep.  The thread may lose the CPU as P() returns.
AddrSpace(t) ==
    /\ ~crashed
    /\ pc[t] = "none"
    /\ IF t = Hog THEN numPhysPages = InvPageTableSize ELSE Booted
    /\ IF ~invPageTableNotYetLoaded
       THEN /\ pc' = [pc EXCEPT ![t] = "ctorReadAt"]
            /\ UNCHANGED semValue
       ELSE IF semValue > 0
       THEN /\ pc' = [pc EXCEPT ![t] = "ctorLoop"]
            /\ semValue' = semValue - 1
       ELSE /\ pc' = [pc EXCEPT ![t] = "ctorP"]
            /\ UNCHANGED semValue
    /\ UNCHANGED <<config, invPageTableNotYetLoaded, invPageTable, memMap, mainMemory,
                   numPages, pageTable, swapFile, faultLocals, ret, searchResult,
                   crashed, counts, history>>

\* A constructor asleep in P() (line 74) runs again when the semaphore is free.
CtorWakeInP(t) ==
    /\ ~crashed
    /\ pc[t] = "ctorP"
    /\ semValue > 0
    /\ semValue' = semValue - 1
    /\ pc' = [pc EXCEPT ![t] = "ctorLoop"]
    /\ UNCHANGED <<config, invPageTableNotYetLoaded, invPageTable, memMap, mainMemory,
                   numPages, pageTable, swapFile, faultLocals, ret, searchResult,
                   crashed, counts, history>>

\* Lines 76-87: the reset loop, the clearing of the flag and V(); the flag is
\* not tested again.  The thread may lose the CPU as V() returns, and waits
\* in executable->ReadAt (line 95).
ResetLoop(t) ==
    /\ ~crashed
    /\ pc[t] = "ctorLoop"
    /\ invPageTable' = ResetTable
    /\ invPageTableNotYetLoaded' = FALSE
    /\ semValue' = semValue + 1
    /\ resets' = resets + 1
    /\ pc' = [pc EXCEPT ![t] = "ctorReadAt"]
    /\ UNCHANGED <<config, memMap, mainMemory, numPages, pageTable, swapFile,
                   faultLocals, ret, searchResult, crashed, calls, stores, history>>

\* Lines 90-120: the header is read, numPages computed and the page table
\* built; the constructor returns.
BuildPageTable(t) ==
    /\ ~crashed
    /\ pc[t] = "ctorReadAt"
    /\ numPages' = [numPages EXCEPT ![t] = NumPagesOf(noffH[t])]
    /\ pageTable' = [pageTable EXCEPT ![t] = NewPageTable(NumPagesOf(noffH[t]))]
    /\ pc' = [pc EXCEPT ![t] = "built"]
    /\ UNCHANGED <<config, invPageTableNotYetLoaded, semValue, invPageTable, memMap,
                   mainMemory, swapFile, faultLocals, ret, searchResult, crashed,
                   counts, history>>

\* GenerateSWAP, lines 213-231: the header is read again, numPages set, and
\* the file created; the thread waits in Create and in Open.
CreateSWAP(t) ==
    /\ ~crashed
    /\ pc[t] = "built"
    /\ numPages' = [numPages EXCEPT ![t] = NumPagesOf(noffH[t])]
    /\ swapFile' = [swapFile EXCEPT ![t] = Create(noffH[t])]
    /\ pc' = [pc EXCEPT ![t] = "Create"]
    /\ UNCHANGED <<config, invPageTableNotYetLoaded, semValue, invPageTable, memMap,
                   mainMemory, pageTable, faultLocals, ret, searchResult, crashed,
                   counts, history>>

\* GenerateSWAP, lines 232-248: the image is put together and written; the
\* process is loaded and may run.
WriteSWAP(t) ==
    /\ ~crashed
    /\ pc[t] = "Create"
    /\ swapFile' = [swapFile EXCEPT ![t] = GenerateSWAP(t, noffH[t])]
    /\ lastWritten' = [lastWritten EXCEPT ![t] = GenerateSWAP(t, noffH[t])]
    /\ pc' = [pc EXCEPT ![t] = "run"]
    /\ UNCHANGED <<config, invPageTableNotYetLoaded, semValue, invPageTable, memMap,
                   mainMemory, numPages, pageTable, faultLocals, ret, searchResult,
                   crashed, counts, swapAtFault, sinceInstall>>

\* ------------------------------------------- PageFaultLoadPage, lines 352-434
Garbage == {Zero, Stored(Zero)}     \* what a read past mainMemory may yield

\* Calls of PageFaultLoadPage in one run: MaxFaults, after the HogPages calls
\* of the resident process where there is one.
FaultBudget == MaxFaults + (IF numPhysPages = InvPageTableSize THEN HogPages ELSE 0)

\* Lines 352-353: thread t faults on its page vp, which is not resident, and
\* calls P(): it takes the semaphore, and may lose the CPU as P() returns, or
\* it is put to sleep.  page[t] holds pageFaultAddr / PageSize from the call on.
\* The resident process touches its pages in ascending order, once each.
PageFaultLoadPage(t, vp) ==
    /\ ~crashed
    /\ pc[t] = "run"
    /\ vp \in DOMAIN pageTable[t]
    /\ ~pageTable[t][vp].valid
    /\ calls < FaultBudget
    /\ t = Hog => calls = vp
    /\ calls' = calls + 1
    /\ swapAtFault' = [swapAtFault EXCEPT ![t] = swapFile[t][vp]]
    /\ page' = [page EXCEPT ![t] = vp]
    /\ ret' = [ret EXCEPT ![t] = NoRet]
    /\ IF semValue > 0
       THEN /\ semValue' = semValue - 1
            /\ pc' = [pc EXCEPT ![t] = "P:ret"]
       ELSE /\ pc' = [pc EXCEPT ![t] = "P"]
            /\ UNCHANGED semValue
    /\ UNCHANGED <<config, invPageTableNotYetLoaded, invPageTable, memMap, mainMemory,
                   numPages, pageTable, swapFile, frame, victimPage, victimFile,
                   searchResult, crashed, stores, resets, lastWritten, sinceInstall>>

\* A thread asleep in P() (line 353) runs again when the semaphore is free:
\* it takes it, P() returns, and the thread may lose the CPU there.
WakeInP(t) ==
    /\ ~crashed
    /\ pc[t] = "P"
    /\ semValue > 0
    /\ semValue' = semValue - 1
    /\ pc' = [pc EXCEPT ![t] = "P:ret"]
    /\ UNCHANGED <<config, invPageTableNotYetLoaded, invPageTable, memMap, mainMemory,
                   numPages, pageTable, swapFile, faultLocals, ret, searchResult,
                   crashed, counts, history>>

\* Lines 354-396 once P() has returned: BitMap::Find, else FrameSearch; up to
\* the first swap-file call, or to "return 1" (which leaves the semaphore taken).
AcquireFrame(t, rnd) ==
    LET found == Find(memMap, numPhysPages)
        v == FrameSearch(swapMode, invPageTable, rnd)
    IN  /\ ~crashed
        /\ pc[t] = "P:ret"
        /\ IF found # NoFrame
           THEN /\ memMap' = memMap \cup {found}
                /\ frame' = [frame EXCEPT ![t] = found]
                /\ victimPage' = [victimPage EXCEPT ![t] = Unowned]
                /\ victimFile' = [victimFile EXCEPT ![t] = Unowned]
                /\ pc' = [pc EXCEPT ![t] = "ReadAt"]
                /\ UNCHANGED <<ret, searchResult>>
           ELSE /\ searchResult' = v
                /\ frame' = [frame EXCEPT ![t] = v]
                /\ UNCHANGED memMap
                /\ IF v = NoFrame
                   THEN /\ pc' = [pc EXCEPT ![t] = "run"]
                        /\ ret' = [ret EXCEPT ![t] = 1]
                        /\ victimPage' = [victimPage EXCEPT ![t] = Unowned]
                        /\ victimFile' = [victimFile EXCEPT ![t] = Unowned]
                   ELSE /\ pc' = [pc EXCEPT ![t] = "Open"]
                        /\ UNCHANGED ret
                        /\ victimPage' = [victimPage EXCEPT ![t] = invPageTable[v].page]
                        /\ victimFile' = [victimFile EXCEPT ![t] = invPageTable[v].process]
        /\ UNCHANGED <<config, invPageTableNotYetLoaded, semValue, invPageTable,
                       mainMemory, numPages, pageTable, swapFile, page, crashed,
                       counts, history>>

\* Lines 379-386: the victim's swap file is opened, the frame is copied and
\* written at the victim's page.  A null writeFile is dereferenced by WriteAt.
WriteBack(t) ==
    /\ ~crashed
    /\ pc[t] = "Open"
    /\ LET writeFile == Open(swapFile, victimFile[t])
       IN \E writeData \in (IF frame[t] < numPhysPages THEN {mainMemory[frame[t]]} ELSE Garbage) :
            IF IsNull(writeFile)
            THEN /\ crashed' = TRUE
                 /\ UNCHANGED <<swapFile, pc>>
            ELSE /\ swapFile' = [swapFile EXCEPT ![victimFile[t]] =
                                    IF victimPage[t] \in DOMAIN @
                                    THEN [@ EXCEPT ![victimPage[t]] = writeData] ELSE @]
                 /\ pc' = [pc EXCEPT ![t] = "WriteAt"]
                 /\ UNCHANGED crashed
    /\ UNCHANGED <<config, invPageTableNotYetLoaded, semValue, invPageTable, memMap,
                   mainMemory, numPages, pageTable, faultLocals, ret, searchResult, counts,
                   history>>

\* Line 388: the entry of the victim's owner is made invalid, through the
\* registry's thread pointer as it is now.  A null pointer, a deleted page
\* table or an index outside it is a wild access: the kernel dies.
InvalidateVictim(t) ==
    /\ ~crashed
    /\ pc[t] = "WriteAt"
    /\ LET e == invPageTable[frame[t]]
       IN IF e.processThread = NULL \/ e.page \notin DOMAIN pageTable[e.processThread]
          THEN /\ crashed' = TRUE
               /\ UNCHANGED <<pageTable, pc>>
          ELSE /\ pageTable' = MarkInvalid(pageTable, e.processThread, e.page)
               /\ pc' = [pc EXCEPT ![t] = "ReadAt"]
               /\ UNCHANGED crashed
    /\ UNCHANGED <<config, invPageTableNotYetLoaded, semValue, invPageTable, memMap,
                   mainMemory, numPages, swapFile, faultLocals, ret, searchResult, counts,
                   history>>

\* Lines 398-430: the page is read from the faulting process's swap file into
\* the frame, the entry and the registry are set, V().  The thread may lose
\* the CPU as V() returns, before "return 0".
Refill(t) ==
    /\ ~crashed
    /\ pc[t] = "ReadAt"
    /\ LET readFile == Open(swapFile, t)
       IN IF IsNull(readFile) \/ frame[t] >= numPhysPages
          THEN /\ crashed' = TRUE
               /\ UNCHANGED <<mainMemory, pageTable, invPageTable, semValue, pc,
                              sinceInstall>>
          ELSE /\ mainMemory' = [mainMemory EXCEPT ![frame[t]] = ReadAt(readFile, page[t])]
               /\ pageTable' = [pageTable EXCEPT ![t][page[t]] =
                                   [valid |-> TRUE, physicalPage |-> frame[t]]]
               /\ invPageTable' = Install(invPageTable, frame[t], t, page[t])
               /\ semValue' = semValue + 1
               /\ pc' = [pc EXCEPT ![t] = "V:ret"]
               /\ sinceInstall' = [i \in Slots |->
                                      IF i = frame[t] THEN 0
                                      ELSE IF sinceInstall[i] = NoRet THEN NoRet
                                      ELSE sinceInstall[i] + 1]
               /\ UNCHANGED crashed
    /\ UNCHANGED <<config, invPageTableNotYetLoaded, memMap, numPages, swapFile,
                   faultLocals, ret, searchResult, counts, lastWritten, swapAtFault>>

\* Line 433: "return 0", once V() has returned and the thread runs again.
ReturnSuccess(t) ==
    /\ ~crashed
    /\ pc[t] = "V:ret"
    /\ pc' = [pc EXCEPT ![t] = "run"]
    /\ ret' = [ret EXCEPT ![t] = 0]
    /\ UNCHANGED <<config, invPageTableNotYetLoaded, semValue, invPageTable, memMap,
                   mainMemory, numPages, pageTable, swapFile, faultLocals, searchResult,
                   crashed, counts, history>>

\* ------------------------------------------------ the user program's stores
\* A store to a resident page goes to its frame (the simulator's translation).
UserStore(t, vp) ==
    /\ ~crashed
    /\ pc[t] = "run"
    /\ vp \in Resident(pageTable[t])
    /\ IsImage(mainMemory[pageTable[t][vp].physicalPage])
    /\ mainMemory' = [mainMemory EXCEPT ![pageTable[t][vp].physicalPage] = Stored(@)]
    /\ lastWritten' = [lastWritten EXCEPT ![t][vp] = Stored(mainMemory[pageTable[t][vp].physicalPage])]
    /\ UNCHANGED <<config, invPageTableNotYetLoaded, semValue, invPageTable, memMap,
                   numPages, pageTable, swapFile, pc, faultLocals, ret, searchResult,
                   crashed, calls, resets, swapAtFault, sinceInstall>>
    /\ stores < MaxStores
    /\ stores' = stores + 1

\* ----------------------------------------------------- teardown, lines 134-152
\* AddrSpace::~AddrSpace, run by the exiting thread; it takes no semaphore.
Destroy(t) ==
    /\ ~crashed
    /\ pc[t] = "run"
    /\ ~IsNull(pageTable[t])
    /\ LET r == DtorLoop(pageTable[t], 0, memMap, invPageTable)
       IN /\ memMap' = r.map
          /\ invPageTable' = r.tbl
    /\ pageTable' = [pageTable EXCEPT ![t] = NoTable]
    /\ pc' = [pc EXCEPT ![t] = "dead"]
    /\ sinceInstall' = [i \in Slots |->
                           IF i \in FramesOf(pageTable[t]) THEN NoRet ELSE sinceInstall[i]]
    /\ UNCHANGED <<config, invPageTableNotYetLoaded, semValue, mainMemory, numPages,
                   swapFile, faultLocals, ret, searchResult, crashed, counts, lastWritten,
                   swapAtFault>>

\* KillSWAP, lines 332-341, called by the exit path after the destructor.
KillSWAP(t) ==
    /\ ~crashed
    /\ pc[t] = "dead"
    /\ swapFile' = [swapFile EXCEPT ![t] = NoFile]
    /\ pc' = [pc EXCEPT ![t] = "gone"]
    /\ UNCHANGED <<config, invPageTableNotYetLoaded, semValue, invPageTable, memMap,
                   mainMemory, numPages, pageTable, faultLocals, ret, searchResult,
                   crashed, counts, history>>

\* -------------------------------------------------------------------- Next
\* The pages a thread's program touches.
Touched(t) == IF t = Hog THEN 0..(HogPages - 1) ELSE 0..(MaxPages - 1)

Next ==
    \/ \E t \in Threads : AddrSpace(t)
    \/ \E t \in Procs : CtorWakeInP(t)
    \/ \E t \in Threads : ResetLoop(t)
    \/ \E t \in Threads : BuildPageTable(t)
    \/ \E t \in Threads : CreateSWAP(t)
    \/ \E t \in Threads : WriteSWAP(t)
    \/ \E t \in Threads : \E vp \in Touched(t) : PageFaultLoadPage(t, vp)
    \/ \E t \in Procs : WakeInP(t)
    \/ \E t \in Threads, rnd \in RandomValues : AcquireFrame(t, rnd)
    \/ \E t \in Procs : WriteBack(t)
    \/ \E t \in Procs : InvalidateVictim(t)
    \/ \E t \in Threads : Refill(t)
    \/ \E t \in Threads : ReturnSuccess(t)
    \/ \E t \in Procs, vp \in 0..(MaxPages - 1) : UserStore(t, vp)
    \/ \E t \in Procs : Destroy(t)
    \/ \E t \in Procs : KillSWAP(t)

Spec == Init /\ [][Next]_vars

\* The steps thread t takes inside the kernel once it has entered it: the body
\* of the constructor and of GenerateSWAP, and of PageFaultLoadPage after the
\* call.  Which program is started, and what a program does (a fault, a
\* store, its exit), is left open.
KernelStep(t) ==
    \/ CtorWakeInP(t)
    \/ ResetLoop(t)
    \/ BuildPageTable(t)
    \/ CreateSWAP(t)
    \/ WriteSWAP(t)
    \/ WakeInP(t)
    \/ \E rnd \in RandomValues : AcquireFrame(t, rnd)
    \/ WriteBack(t)
    \/ InvalidateVictim(t)
    \/ Refill(t)
    \/ ReturnSuccess(t)

\* Fair scheduling: the scheduler runs every thread of its ready list in turn,
\* so a thread that can go on inside the kernel does go on.
SpecLive == Spec /\ \A t \in Threads : WF_vars(KernelStep(t))

\* ---------------------------------------------- FrameSearch on its own
\* FrameSearch as a function of the registry: the registry is drawn from the
\* tables whose first ScanVary times are any of 0..MaxAge and whose other
\* times share one value, and FrameSearch is applied once.
ScanVary == 3
MaxAge == 2

TablesToSearch ==
    {[i \in Slots |-> [UnownedEntry EXCEPT !.time = IF i < ScanVary THEN h[i] ELSE c]] :
        h \in [0..(ScanVary - 1) -> 0..MaxAge], c \in 0..MaxAge}

InitFS ==
    /\ swapMode \in 0..2
    /\ numPhysPages = InvPageTableSize
    /\ invPageTableNotYetLoaded = FALSE
    /\ semValue = SemInitial
    /\ invPageTable \in TablesToSearch
    /\ memMap = {}
    /\ mainMemory = [f \in 0..(numPhysPages - 1) |-> Zero]
    /\ numPages = [t \in Threads |-> 0]
    /\ pageTable = [t \in Threads |-> NoTable]
    /\ swapFile = [t \in Threads |-> NoFile]
    /\ pc = [t \in Threads |-> "none"]
    /\ page = [t \in Threads |-> NoFrame]
    /\ frame = [t \in Threads |-> NoFrame]
    /\ victimPage = [t \in Threads |-> Unowned]
    /\ victimFile = [t \in Threads |-> Unowned]
    /\ ret = [t \in Threads |-> NoRet]
    /\ searchResult = NoRet
    /\ crashed = FALSE
    /\ calls = 0
    /\ stores = 0
    /\ lastWritten = [t \in Threads |-> <<>>]
    /\ swapAtFault = [t \in Threads |-> Zero]
    /\ noffH = [t \in Threads |-> NoHeader]
    /\ sizing = NotSized
    /\ resets = 0
    /\ sinceInstall = [i \in Slots |-> NoRet]

CallFrameSearch(rnd) ==
    /\ searchResult = NoRet
    /\ searchResult' = FrameSearch(swapMode, invPageTable, rnd)
    /\ UNCHANGED <<config, invPageTableNotYetLoaded, semValue, invPageTable, memMap,
                   mainMemory, numPages, pageTable, swapFile, pc, faultLocals, ret,
                   crashed, counts, history>>

NextFS == \E rnd \in RandomValues : CallFrameSearch(rnd)

SpecFS == InitFS /\ [][NextFS]_vars

\* ------------------------------------------------ the page count on its own
\* The sizes of one executable's segments are drawn from multiples of SegStep,
\* negative ones too (the header is taken as it is read), and BigSeg, with
\* which the address space is about as large as a kernel thread's stack; a
\* segment is linked where the loader expects it or at one of OddAddrs.  The
\* constructor and GenerateSWAP each size the address space once.
MaxSeg == 3
SegStep == 700
BigSeg == 14700
FarAddr == 5000

SegSizes == {k * SegStep : k \in (0 - MaxSeg)..MaxSeg} \cup {BigSeg}
OddAddrs == {FarAddr, 0 - PageSize}

InitPC ==
    /\ swapMode = 0
    /\ numPhysPages = InvPageTableSize
    /\ invPageTableNotYetLoaded = FALSE
    /\ semValue = SemInitial
    /\ invPageTable = ResetTable
    /\ memMap = {}
    /\ mainMemory = [f \in 0..(numPhysPages - 1) |-> Zero]
    /\ numPages = [t \in Threads |-> 0]
    /\ pageTable = [t \in Threads |-> NoTable]
    /\ swapFile = [t \in Threads |-> NoFile]
    /\ pc = [t \in Threads |-> "none"]
    /\ page = [t \in Threads |-> NoFrame]
    /\ frame = [t \in Threads |-> NoFrame]
    /\ victimPage = [t \in Threads |-> Unowned]
    /\ victimFile = [t \in Threads |-> Unowned]
    /\ ret = [t \in Threads |-> NoRet]
    /\ searchResult = NoRet
    /\ crashed = FALSE
    /\ calls = 0
    /\ stores = 0
    /\ lastWritten = [t \in Threads |-> <<>>]
    /\ swapAtFault = [t \in Threads |-> Zero]
    /\ \E c \in SegSizes, d \in SegSizes, u \in SegSizes :
       \E ca \in {Linked(c, d, u).code.virtualAddr} \cup OddAddrs,
          da \in {Linked(c, d, u).initData.virtualAddr} \cup OddAddrs :
          noffH = [t \in Threads |->
                      [Linked(c, d, u) EXCEPT !.code.virtualAddr = ca,
                                              !.initData.virtualAddr = da]]
    /\ sizing = NotSized
    /\ resets = 0
    /\ sinceInstall = [i \in Slots |-> NoRet]

paging == <<swapMode, numPhysPages, invPageTableNotYetLoaded, semValue, invPageTable,
            memMap, mainMemory, numPages, pageTable, swapFile, pc, faultLocals, ret,
            searchResult, counts, history>>

\* The thread whose constructor and GenerateSWAP are followed.
Loader == CHOOSE t \in Procs : \A u \in Procs : t <= u

\* Lines 101-105 of the constructor: numPages, and new TranslationEntry[numPages].
SizeAddrSpace ==
    /\ ~crashed
    /\ sizing.numPages = NoRet
    /\ sizing' = [sizing EXCEPT !.numPages = NumPagesOf(noffH[Loader]),
                                !.tableLength = NumPagesOf(noffH[Loader])]
    /\ UNCHANGED <<paging, noffH, crashed>>

\* Lines 222-231 of GenerateSWAP, called once the constructor has returned:
\* numPages again, and Create is asked for a file of size bytes.
SizeSWAP ==
    /\ ~crashed
    /\ sizing.numPages # NoRet
    /\ sizing.swapPages = NoRet
    /\ sizing' = [sizing EXCEPT
                     !.swapPages = NumPagesOf(noffH[Loader]),
                     !.swapLength = PagesToBytes(NumPagesOf(noffH[Loader]))]
    /\ UNCHANGED <<paging, noffH, crashed>>

\* Lines 234-248 of GenerateSWAP, on a stack with room for an array of room
\* pages: swapData is declared and zeroed, the segments are copied in and size
\* bytes are written.  An array the stack has no room for kills the kernel in
\* bzero.  Copies that leave the array overwrite what lies around it, the
\* local size and the return address included: the kernel dies in the copy,
\* or it writes what size then holds and dies after that or goes on.
WriteSizedSWAP(room) ==
    /\ ~crashed
    /\ sizing.swapLength # NoLength
    /\ sizing.swapWritten = NoLength
    /\ \/ /\ ExceedsStack(sizing.swapLength, room)
          /\ crashed' = TRUE
          /\ UNCHANGED sizing
       \/ /\ ~ExceedsStack(sizing.swapLength, room)
          /\ ~Overflows(noffH[Loader], sizing.swapLength)
          /\ sizing' = [sizing EXCEPT !.swapWritten = sizing.swapLength]
          /\ UNCHANGED crashed
       \/ /\ ~ExceedsStack(sizing.swapLength, room)
          /\ Overflows(noffH[Loader], sizing.swapLength)
          /\ \/ /\ crashed' = TRUE
                /\ UNCHANGED sizing
             \/ /\ \E len \in GarbledLengths \cup {sizing.swapLength} :
                      sizing' = [sizing EXCEPT !.swapWritten = len]
                /\ crashed' \in BOOLEAN
    /\ UNCHANGED <<paging, noffH>>

NextPC ==
    \/ SizeAddrSpace
    \/ SizeSWAP
    \/ \E room \in StackRooms : WriteSizedSWAP(room)

SpecPC == InitPC /\ [][NextPC]_vars

\* ------------------------------------------------------------- vocabulary
\* Thread t is inside PageFaultLoadPage with the semaphore taken: P() has
\* returned (line 353) and V() (line 430) has not been called.
InResolver(t) == pc[t] \in {"P:ret", "Open", "WriteAt", "ReadAt"}
\* No fault resolver holds the lock (a resolver that died holds it still).
NoResolver == \A t \in Threads : ~InResolver(t)
\* The valid page table entries of the whole system.
ValidEntries == UNION {{<<t, vp>> : vp \in Resident(pageTable[t])} : t \in Threads}
FrameOfEntry(e) == pageTable[e[1]][e[2]].physicalPage
Pool == 0..(numPhysPages - 1)
\* No frame of the pool is free: BitMap::Find finds none.
PoolFull == Find(memMap, numPhysPages) = NoFrame
\* The step in which thread t calls PageFaultLoadPage, or wakes up in P().
Enters(t) == pc[t] \in {"run", "P"} /\ pc'[t] \in {"P", "P:ret"} /\ pc'[t] # pc[t]
\* The step in which a resolver that holds the semaphore looks for a frame
\* (lines 354-396).
SearchesFrame == \E t \in Procs : pc[t] = "P:ret" /\ pc'[t] # "P:ret"
\* The step in which thread t's resolver installs the page and calls V().
Installs(t) == pc[t] = "ReadAt" /\ pc'[t] = "V:ret"
\* The step in which thread t's resolver returns 0.
Returns0(t) == pc[t] = "V:ret" /\ pc'[t] = "run"
\* Some resolver has evicted a page and returned.
EvictionDone == \E t \in Procs : ret[t] = 0 /\ victimFile[t] # Unowned

\* -------------------------------------------------------------------- C1
\* C1: while no fault resolver holds the lock, no two distinct valid page
\* table entries, of one process or of two, name the same physical page.
C1_NoDoubleMapping ==
    NoResolver =>
        \A e1 \in ValidEntries, e2 \in ValidEntries :
            e1 # e2 => FrameOfEntry(e1) # FrameOfEntry(e2)

\* An eviction has completed, an address space has been destroyed, and two
\* processes have resident pages.
C1_Witness ==
    /\ NoResolver
    /\ EvictionDone
    /\ \E t \in Procs : pc[t] = "dead"
    /\ \E e1 \in ValidEntries, e2 \in ValidEntries : e1[1] # e2[1]

\* -------------------------------------------------------------------- C2
\* C2: while no fault resolver holds the lock (and once the registry has been
\* initialised), every registry entry f with process # -1 names a process
\* whose entry for the registry's page is valid with physicalPage = f, and
\* that is the only valid entry of the process with physicalPage = f.
C2_RegistryMatchesPageTables ==
    (NoResolver /\ ~invPageTableNotYetLoaded) =>
        \A f \in Slots :
            invPageTable[f].process # Unowned =>
                LET o == invPageTable[f].process
                    vp == invPageTable[f].page
                IN  /\ o \in Threads
                    /\ vp \in Resident(pageTable[o])
                    /\ {q \in Resident(pageTable[o]) : pageTable[o][q].physicalPage = f} = {vp}

\* After an eviction by one process and the teardown of another, a frame is
\* still owned.
C2_Witness ==
    /\ NoResolver
    /\ EvictionDone
    /\ \E t \in Procs : pc[t] = "dead" /\ ret[t] = 0
    /\ \E f \in Slots : invPageTable[f].process \in Procs

\* -------------------------------------------------------------------- C3
\* C3: once a call of PageFaultLoadPage has returned, with 0 or with 1, and
\* no resolver is running, the semaphore's value is back to 1.
C3_LockReleasedOnReturn ==
    (NoResolver /\ \E t \in Procs : pc[t] = "run" /\ ret[t] \in {0, 1}) => semValue = 1

\* -------------------------------------------------------------------- C4
\* Thread t has called PageFaultLoadPage and the call has not returned.
InCall(t) == pc[t] \in {"P", "P:ret", "Open", "WriteAt", "ReadAt", "V:ret"}

\* C4: under fair scheduling every call of PageFaultLoadPage returns, with
\* success or with failure, in every mode and also after an earlier call has
\* returned failure: no call waits for the lock for ever.  (A call cut short
\* by the death of the kernel is not held against the statement.)
C4_NoFaultBlocksForever ==
    \A t \in Procs : InCall(t) ~> (pc[t] = "run" \/ crashed)

\* -------------------------------------------------------------------- C5
\* What C5 asks of every step in abort mode.
AbortStep ==
    swapMode = 0 =>
        /\ (\E t \in Procs : Enters(t)) =>
               UNCHANGED <<pageTable, invPageTable, memMap, mainMemory, swapFile>>
        /\ (SearchesFrame /\ PoolFull) =>
               /\ \E t \in Procs : pc[t] = "P:ret" /\ ret'[t] = 1 /\ pc'[t] = "run"
               /\ UNCHANGED <<pageTable, invPageTable, memMap, mainMemory, swapFile>>

\* C5: in abort mode, a call of PageFaultLoadPage that finds no frame free
\* returns 1, and from the call to the return it leaves every page table, the
\* registry, the frame pool, memory and every swap file as they were.
C5_AbortCommitsNothing == [][AbortStep]_vars

\* A fault has failed in abort mode while pages were resident.
C5_Witness ==
    /\ swapMode = 0
    /\ \E t \in Procs : ret[t] = 1 /\ pc[t] = "run"
    /\ ValidEntries # {}

\* -------------------------------------------------------------------- C6
\* The lowest slot whose time is the largest of the registry.
LowestMax(tbl) ==
    CHOOSE i \in Slots :
        /\ \A j \in Slots : tbl[j].time <= tbl[i].time
        /\ \A j \in Slots : j < i => tbl[j].time < tbl[i].time

\* C6: in aged-victim mode FrameSearch returns the lowest slot whose time is
\* the largest, whatever the registry holds (all times equal included).
C6_AgedPicksLowestMax ==
    (swapMode = 1 /\ searchResult # NoRet) => searchResult = LowestMax(invPageTable)

\* -------------------------------------------------------------------- C7
\* What C7 asks of every step in the evicting modes.
EvictionStep ==
    swapMode \in {1, 2} =>
        /\ (SearchesFrame /\ memMap = Pool) =>
               \E t \in Procs :
                   /\ pc'[t] = "Open"
                   /\ frame'[t] \in Pool
                   /\ victimFile'[t] \in Threads
                   /\ victimPage'[t] \in Resident(pageTable[victimFile'[t]])
        /\ ~crashed'
        /\ \A t \in Procs :
               (pc[t] = "WriteAt" /\ pc'[t] = "ReadAt") =>
                   \E e \in ValidEntries :
                       /\ FrameOfEntry(e) = frame[t]
                       /\ ValidEntries' = ValidEntries \ {e}
        /\ \A t \in Procs :
               Installs(t) => page[t] \in Resident(pageTable'[t])
        /\ \A t \in Procs :
               Returns0(t) => ret'[t] = 0

\* C7: in aged-victim or random mode, a resolver that takes the lock when
\* every frame of the pool is allocated goes on to evict: its victim is a
\* frame of the pool whose owner's entry is valid; the write-back and the
\* invalidation do not kill the kernel; and the call returns 0 with the
\* faulting page resident and exactly one entry, the victim's, made invalid.
C7_EvictionOnFullPoolSucceeds == [][EvictionStep]_vars

\* -------------------------------------------------------------------- C8
\* What C8 asks of the step that destroys thread t's address space.
TeardownStep ==
    \A t \in Procs :
          (pc[t] = "run" /\ pc'[t] = "dead") =>
              LET F == FramesOf(pageTable[t])
                  K == Cardinality(Resident(pageTable[t]))
              IN  /\ Cardinality(F) = K
                  /\ memMap' = memMap \ F
                  /\ Cardinality(Pool \ memMap') = Cardinality(Pool \ memMap) + K
                  /\ \A f \in Slots :
                         invPageTable'[f] = IF f \in F THEN UnownedEntry ELSE invPageTable[f]
                  /\ \A u \in Threads \ {t} : FramesOf(pageTable[u]) \cap F = {}
                  /\ \A u \in Threads \ {t} : FramesOf(pageTable[u]) \subseteq memMap'

\* C8: destroying an address space with K valid entries clears exactly their
\* K frames in the frame pool (K more frames are free), resets exactly the K
\* registry entries of those frames to unowned with time 0 and no thread,
\* and releases no frame that another process maps.
C8_TeardownReturnsResidentFrames == [][TeardownStep]_vars

\* A process that loaded a page has been destroyed with the page resident
\* (nothing was ever evicted), its frame is free and unowned again, and
\* another process still has a resident page.
C8_Witness ==
    \E t \in Procs :
        /\ pc[t] = "dead"
        /\ ret[t] = 0
        /\ searchResult = NoRet
        /\ frame[t] \notin memMap
        /\ invPageTable[frame[t]] = UnownedEntry
        /\ \E u \in Procs \ {t} : Resident(pageTable[u]) # {}

\* -------------------------------------------------------------------- C9
\* The step in which a resolver has installed the page and releases the lock.
PageInStep ==
    \A t \in Procs :
          Installs(t) =>
              /\ page[t] \in Resident(pageTable'[t])
              /\ mainMemory'[pageTable'[t][page[t]].physicalPage] = swapAtFault[t]

\* C9, amended: when PageFaultLoadPage has installed page P of process X and
\* releases the lock (the call then returns 0), the frame of X's entry for P
\* holds what X's swap file held at P when the fault was raised, on the
\* free-frame path and on the eviction path alike.
C9_PageInReadsSwap == [][PageInStep]_vars

\* The step in which a resolver returns 0.
PageInAtReturn ==
    \A t \in Procs :
          Returns0(t) =>
              mainMemory'[pageTable'[t][page[t]].physicalPage] = swapAtFault[t]

\* C9 as stated: immediately after PageFaultLoadPage returns 0 for page P of
\* process X, the frame recorded in X's entry for P holds what X's swap file
\* held at P when the fault was raised.
C9_PageInReadsSwapAtReturn == [][PageInAtReturn]_vars

\* A process has evicted a page of its own and its fault has returned 0.
C9_Witness ==
    \E t \in Procs :
        /\ pc[t] = "run"
        /\ ret[t] = 0
        /\ victimFile[t] = t
        /\ page[t] \in Resident(pageTable[t])
        /\ mainMemory[pageTable[t][page[t]].physicalPage] = swapAtFault[t]

\* ------------------------------------------------------------------- C10
\* What C10 asks of the step in which a resolver installs the page.
RefaultStep ==
    \A t \in Procs :
          Installs(t) => mainMemory'[frame[t]] = lastWritten[t][page[t]]

\* C10: when a fault on a page succeeds, the frame mapped for the page holds
\* the bytes its process last stored in it (the image, if it never stored),
\* whatever evictions happened since.
C10_RefaultRestoresLastWritten == [][RefaultStep]_vars

\* The sum the header asks for, and its pages rounded up, as numbers.
HeaderBytes == noffH[Loader].code.size + noffH[Loader].initData.size + noffH[Loader].uninitData.size + UserStackSize
CeilPages == 0 - ((0 - HeaderBytes) \div PageSize)
Sized == sizing.numPages # NoRet
PageCountRight ==
    /\ sizing.numPages = CeilPages
    /\ sizing.tableLength = sizing.numPages
    /\ sizing.swapPages # NoRet =>
           /\ sizing.swapPages = sizing.numPages
           /\ sizing.swapLength = [q |-> sizing.numPages, r |-> 0]
    /\ sizing.swapWritten # NoLength => sizing.swapWritten = sizing.swapLength

\* C11: for every header the constructor accepts, numPages is the sum of the
\* three segment sizes and the stack size divided by PageSize and rounded up
\* and the page table has numPages entries; and once GenerateSWAP has run, it
\* has computed the same numPages and the swap file has numPages * PageSize
\* bytes.
C11_PageCountForEveryHeader == Sized => PageCountRight

\* The header is one a linker writes: no segment size is negative, the copied
\* segments lie inside the address space, and swapData fits every stack.
SaneHeader ==
    LET h == noffH[Loader]
        w == PagesToBytes(NumPagesOf(h))
    IN  /\ h.code.size >= 0 /\ h.initData.size >= 0 /\ h.uninitData.size >= 0
        /\ ~Overflows(h, w)
        /\ \A room \in StackRooms : ~ExceedsStack(w, room)
\* The same, for such headers only; with them GenerateSWAP does not kill the
\* kernel either.
PageCountOfSaneHeader ==
    SaneHeader => /\ Sized => PageCountRight
                  /\ ~crashed

\* A destructor that finds valid entries runs its loop body: frames are
\* cleared in memMap, registry entries reset, page-table entries made invalid.
TeardownMutates ==
    \E t \in Procs : /\ pc[t] = "run" /\ pc'[t] = "dead"
                      /\ Resident(pageTable[t]) # {}
TeardownStepAlone == TeardownMutates => NoResolver

\* C12: while a thread is inside PageFaultLoadPage with the lock taken (blocked
\* in swap I/O included), no destructor runs its frame-release, registry-clear
\* or invalidate steps: every such step is taken when no resolution is under way.
C12_NoTeardownDuringFault == [][TeardownStepAlone]_vars

\* Some registry entry names an owner.
OwnerRecorded == \E i \in Slots : invPageTable[i].process \in Threads
\* Some constructor is past lines 71-88.
Constructed == \E t \in Threads : pc[t] \notin {"none", "ctorP", "ctorLoop"}
ResetRanOnce ==
    /\ resets <= 1
    /\ Constructed => (resets = 1 /\ ~invPageTableNotYetLoaded)
ResetBeforeOwners == resets' # resets => ~OwnerRecorded

\* C13: with constructors descheduled where they call P() or V() on the
\* lock, the loop that resets the registry runs exactly once over all
\* constructions, and never once a fault resolution has recorded an owner.
C13_RegistryResetOnce == []ResetRanOnce /\ [][ResetBeforeOwners]_vars

Resolvers == {t \in Threads : InResolver(t)}
\* The threads between the return of P() and the return of PageFaultLoadPage.
NotYetReturned == {t \in Threads : InResolver(t) \/ pc[t] = "V:ret"}

\* C14, amended: in every reachable state at most one thread is between the
\* taking of the lock at the start of PageFaultLoadPage and its release, so
\* the Acquire-Frame, Refill and Install steps of two fault resolutions are
\* never interleaved.
C14_OneResolverAtATime == Cardinality(Resolvers) <= 1

\* C14 as stated: in every reachable state at most one thread is between the
\* taking of the lock at the start of PageFaultLoadPage and its return.
C14_OneThreadUntilReturn == Cardinality(NotYetReturned) <= 1

\* One thread is inside, blocked in swap I/O, and another sleeps in P().
C14_Witness ==
    \E t \in Procs, u \in Procs : t # u /\ InResolver(t) /\ pc[u] = "P" /\ ~crashed

\* A resolver finds no free frame with BitMap::Find: FrameSearch is called,
\* and searchResult' is what it returns.
SearchesOnFullPool == SearchesFrame /\ PoolFull
\* The registry and the page tables tell the same: every valid entry's frame
\* is recorded for its process and page, and every owner recorded has that
\* entry valid in that frame.
RegistryConsistent ==
    /\ \A e \in ValidEntries :
           /\ FrameOfEntry(e) \in Slots
           /\ invPageTable[FrameOfEntry(e)].process = e[1]
           /\ invPageTable[FrameOfEntry(e)].page = e[2]
    /\ \A f \in Slots :
           invPageTable[f].process \in Threads =>
               /\ <<invPageTable[f].process, invPageTable[f].page>> \in ValidEntries
               /\ pageTable[invPageTable[f].process][invPageTable[f].page].physicalPage = f
VictimFound ==
    (SearchesOnFullPool /\ RegistryConsistent /\ swapMode # 0) => searchResult' \in Slots

\* C15: in aged-victim and in random mode, whenever no frame is free and the
\* registry is consistent with the page tables, FrameSearch returns an index
\* and never -1, for every pool size.
C15_NoVictimOnlyInAbortMode == [][VictimFound]_vars

\* In aged-victim mode a search on a full pool has returned an index.
C15_Witness ==
    /\ swapMode = 1
    /\ searchResult \in Slots
    /\ \E t \in Procs : pc[t] = "Open" /\ frame[t] = searchResult
    /\ Find(memMap, numPhysPages) = NoFrame
    /\ RegistryConsistent

VictimIsOwnedFrame ==
    (SearchesOnFullPool /\ swapMode # 0 /\ searchResult' \in Slots)
        => /\ searchResult' < numPhysPages
           /\ invPageTable[searchResult'].process # Unowned
           /\ invPageTable[searchResult'].processThread # NULL

\* C16: whenever FrameSearch returns an index in aged-victim or random mode
\* during a fault, the index is below the number of frames of the pool and its
\* registry entry has an owner process and a non-null owner thread, for every
\* pool size.
C16_VictimIsOwnedFrameOfPool == [][VictimIsOwnedFrame]_vars

\* The registry after thread t's resolver has installed its page, entry by entry.
InstallsAndAges(t) ==
    \A i \in Slots :
        IF i = frame[t]
        THEN /\ invPageTable'[i].time = 0
             /\ invPageTable'[i].process = t
             /\ invPageTable'[i].page = page[t]
        ELSE /\ invPageTable'[i].time = invPageTable[i].time + 1
             /\ invPageTable'[i].process = invPageTable[i].process
             /\ invPageTable'[i].processThread = invPageTable[i].processThread
             /\ invPageTable'[i].page = invPageTable[i].page
InstallStep == \A t \in Procs : Installs(t) => InstallsAndAges(t)
AgeCountsFaults ==
    \A i \in Slots : invPageTable[i].process \in Threads
                        => invPageTable[i].time = sinceInstall[i]

\* C17: a successful fault resolution sets the installed frame's entry to
\* time 0 and the faulting process and page, and adds one to every other
\* entry's time, leaving its owner; so in every state the time of an owned
\* frame is the number of successful resolutions since it was installed.
C17_AgeCountsFaultsSinceInstall == []AgeCountsFaults /\ [][InstallStep]_vars

\* Two frames are owned, one installed two successful faults before now.
C17_Witness ==
    \E i \in Slots, j \in Slots :
        /\ invPageTable[i].process \in Procs /\ invPageTable[i].time = 2
        /\ invPageTable[j].process \in Procs /\ invPageTable[j].time = 0
        /\ sinceInstall[i] = 2

UnownedAreFree ==
    /\ \A f \in Pool : invPageTable[f].process = Unowned => f \notin memMap
    /\ \A f \in Pool : f \in memMap => invPageTable[f].process # Unowned
    /\ Cardinality(memMap) = Cardinality(ValidEntries)

\* C18: whenever no fault resolver holds the lock, every frame of the pool
\* whose registry entry has process -1 is free, every allocated frame has an
\* entry whose process is not -1, and the number of allocated frames is the
\* number of valid page-table entries of all processes.
C18_UnownedEntriesAreFreeFrames == NoResolver => UnownedAreFree

Owned(i) == invPageTable[i].process \in Threads
AgesDistinct ==
    PoolFull => \A i \in Slots, j \in Slots :
                    (Owned(i) /\ Owned(j) /\ i # j) => invPageTable[i].time # invPageTable[j].time
\* The victim of an aged search is the owned frame installed longest ago.
AgedVictimIsEarliest ==
    (SearchesOnFullPool /\ swapMode = 1)
        => /\ searchResult' \in Slots
           /\ Owned(searchResult')
           /\ \A j \in Slots : Owned(j) => sinceInstall[j] <= sinceInstall[searchResult']

\* C19: in every reachable state in which no frame is free, no two owned
\* registry entries have the same time, so aged-victim selection breaks no tie
\* among owned frames and its victim is the frame installed earliest.
C19_DistinctAgesGiveFIFO == []AgesDistinct /\ [][AgedVictimIsEarliest]_vars

\* The destructor of thread t's address space has completed.
TornDown(t) == pc[t] \in {"dead", "gone"}
NoEntryNames(t) ==
    \A i \in Slots : invPageTable[i].process # t /\ invPageTable[i].processThread # t
NoDanglingOutsideFaults == NoResolver => \A t \in Procs : TornDown(t) => NoEntryNames(t)

\* C20: once the teardown of a process's address space has completed, no
\* registry entry has that process as its owner or refers to its thread,
\* whatever faults and evictions went before.
C20_NoDanglingOwner == \A t \in Procs : TornDown(t) => NoEntryNames(t)

\* The same as C18, as long as the reset loop has not run a second time.
UnownedAreFreeAfterOneReset == (NoResolver /\ resets <= 1) => UnownedAreFree

====
